---- MODULE Spec2Model ----
(***************************************************************************)
(* pathobject.Path: path decomposition (splitpath, splitall) and the      *)
(* relative-path algorithm (relpathto), over the two path syntaxes a Path  *)
(* class can be bound to with Path.for_path_module: posixpath and ntpath.  *)
(*                                                                         *)
(* A path string is a sequence of one-character strings, so that "a//b"    *)
(* and "a/b" are different values and every split, join, normcase and      *)
(* normpath is computed character by character, as the path module         *)
(* computes it (Python 2.7 semantics, the interpreter line the source      *)
(* targets: it subclasses `unicode`).                                      *)
(***************************************************************************)
EXTENDS Integers, Sequences, FiniteSets, TLC

VARIABLES
    syntax,        \* the path module bound to the class: "posix" or "nt"
    op,            \* the method called: "splitpath", "splitall", "relpathto"
    self,          \* the path the method is called on
    arg,           \* relpathto's `destination` argument (<<>> otherwise)
    cwd,           \* the process's working directory, read by abspath
    pc,            \* position inside the method
    location,      \* splitall: `location`
    parts,         \* splitall: `parts`
    origin,        \* relpathto: `origin`
    destination,   \* relpathto: `destination` after absolute()
    orig_list,     \* relpathto: `orig_list`
    dest_list,     \* relpathto: `dest_list`
    common_index,  \* relpathto: `common_index`
    segments,      \* relpathto: `segments`
    result         \* the value returned (<<>> until pc = "done")

vars == <<syntax, op, self, arg, cwd, pc, location, parts, origin, destination,
          orig_list, dest_list, common_index, segments, result>>

-----------------------------------------------------------------------------
(* Bounds of the model.                                                    *)

\* longest path string given to splitpath / splitall
MaxLen == 5
\* most components of a path given to relpathto
MaxDepth == 2

-----------------------------------------------------------------------------
(* String helpers (Python str methods used by the path modules).           *)

Syntaxes == {"posix", "nt"}

\* s[:n] and s[n:] with Python's 0-based n
Take(s, n) == SubSeq(s, 1, n)
Drop(s, n) == SubSeq(s, n + 1, Len(s))

AllIn(s, cs) == \A i \in 1..Len(s) : s[i] \in cs

StartsWith(s, p) == Len(s) >= Len(p) /\ Take(s, Len(p)) = p

SetMax(S) == CHOOSE x \in S : \A y \in S : y <= x
SetMin(S) == CHOOSE x \in S : \A y \in S : x <= y

\* number of leading characters up to and including the last one in cs
\* (p.rfind(c) + 1 for a single c); 0 when there is none
LastIn(s, cs) == SetMax({0} \cup {i \in 1..Len(s) : s[i] \in cs})

\* s.find(c, start) with 0-based positions; -1 when there is none
Find(s, c, start) ==
    LET hits == {i \in (start + 1)..Len(s) : s[i] = c}
    IN  IF hits = {} THEN -1 ELSE SetMin(hits) - 1

\* s.rstrip(cs) and s.lstrip(cs)
RStrip(s, cs) == Take(s, SetMax({0} \cup {i \in 1..Len(s) : s[i] \notin cs}))
LStrip(s, cs) ==
    Drop(s, SetMin({Len(s) + 1} \cup {i \in 1..Len(s) : s[i] \notin cs}) - 1)

\* s.replace(a, b) for single characters
Replace(s, a, b) == [i \in 1..Len(s) |-> IF s[i] = a THEN b ELSE s[i]]

\* s.lower() on the letters of the model's alphabets
LowerChar(c) ==
    CASE c = "A" -> "a"
      [] c = "B" -> "b"
      [] c = "C" -> "c"
      [] c = "D" -> "d"
      [] c = "E" -> "e"
      [] c = "X" -> "x"
      [] OTHER -> c
Lower(s) == [i \in 1..Len(s) |-> LowerChar(s[i])]

\* s.split(c): the pieces between occurrences of c
RECURSIVE SplitOn(_, _)
SplitOn(s, c) ==
    LET i == Find(s, c, 0)
    IN  IF i = -1 THEN <<s>>
        ELSE <<Take(s, i)>> \o SplitOn(Drop(s, i + 1), c)

\* c.join(comps)
RECURSIVE JoinWith(_, _)
JoinWith(comps, c) ==
    IF comps = <<>> THEN <<>>
    ELSE IF Len(comps) = 1 THEN comps[1]
    ELSE comps[1] \o <<c>> \o JoinWith(Tail(comps), c)

\* list.reverse()
Reverse(l) == [i \in 1..Len(l) |-> l[Len(l) + 1 - i]]

\* [x] * n
Repeat(x, n) == [i \in 1..n |-> x]

-----------------------------------------------------------------------------
(* posixpath                                                               *)

Slash == {"/"}

PosixSplit(p) ==
    LET i == LastIn(p, Slash)
        head == Take(p, i)
        tail == Drop(p, i)
    IN  <<IF head # <<>> /\ ~AllIn(head, Slash) THEN RStrip(head, Slash) ELSE head,
          tail>>

PosixJoin2(path, b) ==
    IF StartsWith(b, <<"/">>) THEN b
    ELSE IF path = <<>> \/ path[Len(path)] = "/" THEN path \o b
    ELSE path \o <<"/">> \o b

RECURSIVE PosixJoin(_, _)
PosixJoin(a, p) ==
    IF p = <<>> THEN a ELSE PosixJoin(PosixJoin2(a, Head(p)), Tail(p))

PosixIsAbs(s) == StartsWith(s, <<"/">>)

PosixNormComp(new_comps, comp, initial_slashes) ==
    IF comp = <<>> \/ comp = <<".">> THEN new_comps
    ELSE IF comp # <<".", ".">>
            \/ (initial_slashes = 0 /\ new_comps = <<>>)
            \/ (new_comps # <<>> /\ new_comps[Len(new_comps)] = <<".", ".">>)
         THEN Append(new_comps, comp)
    ELSE IF new_comps # <<>> THEN Take(new_comps, Len(new_comps) - 1)
    ELSE new_comps

RECURSIVE PosixNormComps(_, _, _)
PosixNormComps(new_comps, comps, initial_slashes) ==
    IF comps = <<>> THEN new_comps
    ELSE PosixNormComps(PosixNormComp(new_comps, Head(comps), initial_slashes),
                        Tail(comps), initial_slashes)

PosixNormpath(path) ==
    IF path = <<>> THEN <<".">>
    ELSE
    LET initial_slashes ==
            IF ~StartsWith(path, <<"/">>) THEN 0
            ELSE IF StartsWith(path, <<"/", "/">>) /\ ~StartsWith(path, <<"/", "/", "/">>)
                 THEN 2 ELSE 1
        comps == PosixNormComps(<<>>, SplitOn(path, "/"), initial_slashes)
        joined == Repeat("/", initial_slashes) \o JoinWith(comps, "/")
    IN  IF joined = <<>> THEN <<".">> ELSE joined

PosixAbspath(path, wd) ==
    PosixNormpath(IF PosixIsAbs(path) THEN path ELSE PosixJoin(wd, <<path>>))

-----------------------------------------------------------------------------
(* ntpath                                                                  *)

BothSeps == {"\\", "/"}

NtNormcase(s) == Lower(Replace(s, "/", "\\"))

NtSplitDrive(p) ==
    IF Len(p) > 1 THEN
        LET normp == Replace(p, "/", "\\")
        IN  IF Take(normp, 2) = <<"\\", "\\">> /\ (Len(normp) < 3 \/ normp[3] # "\\")
            THEN \* a UNC path: \\machine\mountpoint\directory...
                 LET index == Find(normp, "\\", 2)
                     index2 == IF index = -1 THEN -1 ELSE Find(normp, "\\", index + 1)
                 IN  IF index = -1 THEN <<<<>>, p>>
                     ELSE IF index2 = index + 1 THEN <<<<>>, p>>
                     ELSE IF index2 = -1 THEN <<p, <<>>>>
                     ELSE <<Take(p, index2), Drop(p, index2)>>
            ELSE IF normp[2] = ":" THEN <<Take(p, 2), Drop(p, 2)>>
            ELSE <<<<>>, p>>
    ELSE <<<<>>, p>>

NtIsAbs(s) ==
    LET rest == NtSplitDrive(s)[2]
    IN  rest # <<>> /\ rest[1] \in BothSeps

\* one iteration of join's loop over *paths; state is <<result_drive, result_path>>
NtJoin2(st, p) ==
    LET result_drive == st[1]
        result_path == st[2]
        p_drive == NtSplitDrive(p)[1]
        p_path == NtSplitDrive(p)[2]
        sameDrive == IF p_drive # <<>> /\ p_drive # result_drive
                     THEN p_drive ELSE result_drive
    IN  IF p_path # <<>> /\ p_path[1] \in BothSeps
        THEN <<IF p_drive # <<>> \/ result_drive = <<>> THEN p_drive ELSE result_drive,
               p_path>>
        ELSE IF p_drive # <<>> /\ p_drive # result_drive
                /\ Lower(p_drive) # Lower(result_drive)
        THEN <<p_drive, p_path>>
        ELSE <<sameDrive,
               (IF result_path # <<>> /\ result_path[Len(result_path)] \notin BothSeps
                THEN result_path \o <<"\\">> ELSE result_path) \o p_path>>

RECURSIVE NtJoinLoop(_, _)
NtJoinLoop(st, paths) ==
    IF paths = <<>> THEN st ELSE NtJoinLoop(NtJoin2(st, Head(paths)), Tail(paths))

NtJoin(path, paths) ==
    LET st == NtJoinLoop(NtSplitDrive(path), paths)
        result_drive == st[1]
        result_path == st[2]
    IN  IF result_path # <<>> /\ result_path[1] \notin BothSeps
           /\ result_drive # <<>> /\ result_drive[Len(result_drive)] # ":"
        THEN result_drive \o <<"\\">> \o result_path
        ELSE result_drive \o result_path

NtSplit(path) ==
    LET d == NtSplitDrive(path)[1]
        p == NtSplitDrive(path)[2]
        i == LastIn(p, BothSeps)
        head == Take(p, i)
        tail == Drop(p, i)
        head2 == RStrip(head, BothSeps)
    IN  <<d \o (IF head2 # <<>> THEN head2 ELSE head), tail>>

\* normpath's `while i < len(comps)` loop
RECURSIVE NtNormComps(_, _, _)
NtNormComps(comps, i, rooted) ==
    LET del1 == Take(comps, i) \o Drop(comps, i + 1)
        del2 == Take(comps, i - 1) \o Drop(comps, i + 1)
    IN  IF i >= Len(comps) THEN comps
        ELSE IF comps[i + 1] = <<".">> \/ comps[i + 1] = <<>>
             THEN NtNormComps(del1, i, rooted)
        ELSE IF comps[i + 1] = <<".", ".">>
             THEN IF i > 0 /\ comps[i] # <<".", ".">>
                  THEN NtNormComps(del2, i - 1, rooted)
                  ELSE IF i = 0 /\ rooted THEN NtNormComps(del1, i, rooted)
                  ELSE NtNormComps(comps, i + 1, rooted)
        ELSE NtNormComps(comps, i + 1, rooted)

NtNormpath(p) ==
    IF StartsWith(p, <<"\\", "\\", ".", "\\">>) \/ StartsWith(p, <<"\\", "\\", "?", "\\">>)
    THEN p
    ELSE
    LET path0 == Replace(p, "/", "\\")
        drive == NtSplitDrive(path0)[1]
        rest == NtSplitDrive(path0)[2]
        stripped == LStrip(rest, {"\\"})
        prefix == IF drive = <<>> THEN Take(rest, Len(rest) - Len(stripped))
                  ELSE IF StartsWith(rest, <<"\\">>) THEN drive \o <<"\\">>
                  ELSE drive
        comps0 == NtNormComps(SplitOn(stripped, "\\"), 0,
                              prefix # <<>> /\ prefix[Len(prefix)] = "\\")
        comps == IF prefix = <<>> /\ comps0 = <<>> THEN << <<".">> >> ELSE comps0
    IN  prefix \o JoinWith(comps, "\\")

\* the abspath ntpath defines where the nt builtin module is absent; the
\* working directory is the process's, whatever host it runs on
NtAbspath(path, wd) ==
    NtNormpath(IF NtIsAbs(path) THEN path ELSE NtJoin(wd, <<path>>))

-----------------------------------------------------------------------------
(* Path: the proxies to the bound path module (`self._path`).              *)

curdir(syn) == <<".">>
pardir(syn) == <<".", ".">>
sep(syn) == IF syn = "posix" THEN "/" ELSE "\\"
seps(syn) == IF syn = "posix" THEN Slash ELSE BothSeps

split(syn, p) == IF syn = "posix" THEN PosixSplit(p) ELSE NtSplit(p)
join(syn, a, p) == IF syn = "posix" THEN PosixJoin(a, p) ELSE NtJoin(a, p)
normcase(syn, s) == IF syn = "posix" THEN s ELSE NtNormcase(s)
normpath(syn, p) == IF syn = "posix" THEN PosixNormpath(p) ELSE NtNormpath(p)
isabs(syn, p) == IF syn = "posix" THEN PosixIsAbs(p) ELSE NtIsAbs(p)
abspath(syn, p, wd) == IF syn = "posix" THEN PosixAbspath(p, wd) ELSE NtAbspath(p, wd)
splitdrive(syn, p) == IF syn = "posix" THEN <<<<>>, p>> ELSE NtSplitDrive(p)

\* joinpath = wrap(pmethod('join')): root.joinpath(*rest)
joinpath(syn, root, rest) == join(syn, root, rest)

\* a faulty variant: the path is used as given, absolute() is not applied
absolute_asgiven(syn, p, wd) == p

\* absolute = wrap(pmethod('abspath'))
absolute(syn, p, wd) == abspath(syn, p, wd)

-----------------------------------------------------------------------------
(* Path.splitpath and Path.splitall                                        *)

\* (parent, child) = self._path.split(self)
splitpath(syn, p) == split(syn, p)

\* the test of `while location not in (curdir, pardir)`
LoopContinues(syn, loc) == loc \notin {curdir(syn), pardir(syn)}

\* a faulty variant: the fixed-point break is missing
FixedPoint_never(loc, previous) == FALSE

\* `if location == previous: break`
FixedPoint(loc, previous) == loc = previous

\* the loop of splitall from <<location, parts>> to its exit
RECURSIVE splitall_loop(_, _, _)
splitall_loop(syn, loc, ps) ==
    IF ~LoopContinues(syn, loc) THEN <<loc, ps>>
    ELSE LET sp == splitpath(syn, loc)
         IN  IF FixedPoint(sp[1], loc) THEN <<sp[1], ps>>
             ELSE splitall_loop(syn, sp[1], Append(ps, sp[2]))

\* a faulty variant: parts.reverse() is missing
splitall_return_unreversed(loc, ps) == Append(ps, loc)

\* parts.append(location); parts.reverse(); return parts
splitall_return(loc, ps) == Reverse(Append(ps, loc))

splitall(syn, p) ==
    LET r == splitall_loop(syn, p, <<>>) IN splitall_return(r[1], r[2])

-----------------------------------------------------------------------------
(* Path.relpathto                                                          *)

\* orig_list = origin.normcase().splitall()
OrigList(syn, o) == splitall(syn, normcase(syn, o))

\* a faulty variant: the destination is normcased before it is split, like the origin
DestList_normcased(syn, d) == splitall(syn, normcase(syn, d))

\* dest_list = destination.splitall()
DestList(syn, d) == splitall(syn, d)

\* `if orig_list[0] != self._path.normcase(dest_list[0])`
RootsDiffer(syn, ol, dl) == ol[1] # normcase(syn, dl[1])

\* a faulty variant: the destination's part is compared as spelled
PartsDiffer_exact(syn, orig_part, dest_part) == orig_part # dest_part

\* `if orig_part != self._path.normcase(dest_part): break`
PartsDiffer(syn, orig_part, dest_part) == orig_part # normcase(syn, dest_part)

\* zip(orig_list, dest_list) has an element at 0-based position k
ZipHas(ol, dl, k) == k < Len(ol) /\ k < Len(dl)

\* a faulty variant: one pardir too few
Segments_offbyone(syn, ol, dl, k) == Repeat(pardir(syn), Len(ol) - k - 1) \o Drop(dl, k)

\* a faulty variant: the destination's components are not appended
Segments_pardirsonly(syn, ol, dl, k) == Repeat(pardir(syn), Len(ol) - k)

\* segments = [pardir] * (len(orig_list) - common_index) + dest_list[common_index:]
Segments(syn, ol, dl, k) == Repeat(pardir(syn), Len(ol) - k) \o Drop(dl, k)

\* a faulty variant: no curdir for an empty segment list
RelResult_nocurdir(syn, segs) ==
    IF segs = <<>> THEN <<>> ELSE join(syn, Head(segs), Tail(segs))

\* `if not segments: return curdir` / `return join(*segments)`
RelResult(syn, segs) ==
    IF segs = <<>> THEN curdir(syn) ELSE join(syn, Head(segs), Tail(segs))

-----------------------------------------------------------------------------
(* Inputs                                                                  *)

Alphabet(syn) == IF syn = "posix" THEN {"/", ".", "a"} ELSE {"\\", "/", ":", ".", "a"}

Strings(alpha, n) == UNION {[1..k -> alpha] : k \in 0..n}

\* longer paths of the shapes the docstrings name
ExtraPaths(syn) ==
    IF syn = "posix"
    THEN { <<"/", "a", "/", "b", "/", "c">>, <<"a", "/", "/", "b", "/", "c">> }
    ELSE { <<"C", ":", "\\", "A", "\\", "B", "\\", "C">>,
           <<"\\", "\\", "a", "\\", "b", "\\", "c">>,
           <<"\\", "\\", "a", "\\", "b", "\\", "c", "\\", "d">> }

SplitPaths(syn) == Strings(Alphabet(syn), MaxLen) \cup ExtraPaths(syn)

\* relpathto's paths: a prefix, then up to MaxDepth components
Prefixes(syn) ==
    IF syn = "posix" THEN { <<>>, <<"/">>, <<"/", "/">> }
    ELSE { <<>>, <<"c", ":", "\\">>, <<"C", ":", "\\">>, <<"d", ":", "\\">>, <<"c", ":">> }

Names(syn) ==
    IF syn = "posix" THEN { <<"a">>, <<"b">>, <<".", ".">> }
    ELSE { <<"a">>, <<"A">>, <<"b">> }

RelPaths(syn) ==
    { pre \o JoinWith(cs, sep(syn)) :
        pre \in Prefixes(syn), cs \in Strings(Names(syn), MaxDepth) }

\* the pairs of the docstring and of the specification's examples, and a
\* drive-relative origin that climbs above its drive's working directory
ExamplePairs(syn) ==
    IF syn = "posix"
    THEN { << <<"/", "a", "/", "b", "/", "c">>, <<"/", "a", "/", "d", "/", "e">> >>,
           << <<"/", "a", "/", "b", "/", "c">>, <<"/", "a">> >>,
           << <<"/", "a">>, <<"/", "a", "/", "b", "/", "c">> >> }
    ELSE { << <<"C", ":", "\\", "A", "\\", "B">>, <<"D", ":", "\\", "X">> >>,
           << <<"c", ":", "\\", "a", "\\", "b", "\\", "c">>, <<"C", ":", "\\", "A", "\\", "D", "\\", "E">> >>,
           << <<"d", ":", ".", ".", "\\", "a">>, <<"d", ":", "b">> >> }

RelPairs(syn) == (RelPaths(syn) \X RelPaths(syn)) \cup ExamplePairs(syn)

\* the working directory: on a Windows host a drive path, on a POSIX host
\* (ntpath bound with for_path_module) a path with no drive
Cwds(syn) ==
    IF syn = "posix" THEN { <<"/", "a">> }
    ELSE { <<"C", ":", "\\", "a">>, <<"/", "a">> }

-----------------------------------------------------------------------------
(* The methods as state machines                                           *)

Idle ==
    /\ location = <<>> /\ parts = <<>> /\ origin = <<>> /\ destination = <<>>
    /\ orig_list = <<>> /\ dest_list = <<>> /\ common_index = 0
    /\ segments = <<>> /\ result = <<>>
    /\ pc = "call"

InitSplit ==
    /\ syntax \in Syntaxes
    /\ op \in {"splitpath", "splitall"}
    /\ self \in SplitPaths(syntax)
    /\ arg = <<>> /\ cwd = <<>>
    /\ Idle

InitRel ==
    /\ syntax \in Syntaxes
    /\ op = "relpathto"
    /\ \E pr \in RelPairs(syntax) : self = pr[1] /\ arg = pr[2]
    /\ cwd \in Cwds(syntax)
    /\ Idle

SplitPathCall ==
    /\ pc = "call" /\ op = "splitpath"
    /\ result' = splitpath(syntax, self)
    /\ pc' = "done"
    /\ UNCHANGED <<syntax, op, self, arg, cwd, location, parts, origin, destination,
                   orig_list, dest_list, common_index, segments>>

\* parts = []; location = self
SplitAllEnter ==
    /\ pc = "call" /\ op = "splitall"
    /\ parts' = <<>>
    /\ location' = self
    /\ pc' = "while"
    /\ UNCHANGED <<syntax, op, self, arg, cwd, origin, destination,
                   orig_list, dest_list, common_index, segments, result>>

\* one iteration that appends the child and goes round again
SplitAllIterate ==
    /\ pc = "while"
    /\ LoopContinues(syntax, location)
    /\ LET sp == splitpath(syntax, location)
       IN  /\ ~FixedPoint(sp[1], location)
           /\ location' = sp[1]
           /\ parts' = Append(parts, sp[2])
    /\ pc' = "while"
    /\ UNCHANGED <<syntax, op, self, arg, cwd, origin, destination,
                   orig_list, dest_list, common_index, segments, result>>

\* the iteration whose splitpath returns the location it was given: break
SplitAllBreak ==
    /\ pc = "while"
    /\ LoopContinues(syntax, location)
    /\ LET sp == splitpath(syntax, location)
       IN  /\ FixedPoint(sp[1], location)
           /\ location' = sp[1]
    /\ pc' = "return"
    /\ UNCHANGED <<syntax, op, self, arg, cwd, parts, origin, destination,
                   orig_list, dest_list, common_index, segments, result>>

\* the while test fails: location is curdir or pardir
SplitAllStop ==
    /\ pc = "while"
    /\ ~LoopContinues(syntax, location)
    /\ pc' = "return"
    /\ UNCHANGED <<syntax, op, self, arg, cwd, location, parts, origin, destination,
                   orig_list, dest_list, common_index, segments, result>>

SplitAllReturn ==
    /\ pc = "return"
    /\ result' = splitall_return(location, parts)
    /\ pc' = "done"
    /\ UNCHANGED <<syntax, op, self, arg, cwd, location, parts, origin, destination,
                   orig_list, dest_list, common_index, segments>>

NextSplit ==
    \/ SplitPathCall
    \/ SplitAllEnter
    \/ SplitAllIterate
    \/ SplitAllBreak
    \/ SplitAllStop
    \/ SplitAllReturn

\* origin = self.absolute(); destination = type(self)(destination).absolute()
RelAbsolute ==
    /\ pc = "call" /\ op = "relpathto"
    /\ origin' = absolute(syntax, self, cwd)
    /\ destination' = absolute(syntax, arg, cwd)
    /\ pc' = "lists"
    /\ UNCHANGED <<syntax, op, self, arg, cwd, location, parts,
                   orig_list, dest_list, common_index, segments, result>>

RelSplitAll ==
    /\ pc = "lists"
    /\ orig_list' = OrigList(syntax, origin)
    /\ dest_list' = DestList(syntax, destination)
    /\ pc' = "roots"
    /\ UNCHANGED <<syntax, op, self, arg, cwd, location, parts, origin, destination,
                   common_index, segments, result>>

\* no relative path exists: return destination
RelNoRelativePath ==
    /\ pc = "roots"
    /\ RootsDiffer(syntax, orig_list, dest_list)
    /\ result' = destination
    /\ pc' = "done"
    /\ UNCHANGED <<syntax, op, self, arg, cwd, location, parts, origin, destination,
                   orig_list, dest_list, common_index, segments>>

RelSameRoot ==
    /\ pc = "roots"
    /\ ~RootsDiffer(syntax, orig_list, dest_list)
    /\ common_index' = 0
    /\ pc' = "zip"
    /\ UNCHANGED <<syntax, op, self, arg, cwd, location, parts, origin, destination,
                   orig_list, dest_list, segments, result>>

\* an iteration of the for loop that does not break
RelCommon ==
    /\ pc = "zip"
    /\ ZipHas(orig_list, dest_list, common_index)
    /\ ~PartsDiffer(syntax, orig_list[common_index + 1], dest_list[common_index + 1])
    /\ common_index' = common_index + 1
    /\ UNCHANGED <<syntax, op, self, arg, cwd, pc, location, parts, origin, destination,
                   orig_list, dest_list, segments, result>>

\* the iteration that breaks
RelDiverge ==
    /\ pc = "zip"
    /\ ZipHas(orig_list, dest_list, common_index)
    /\ PartsDiffer(syntax, orig_list[common_index + 1], dest_list[common_index + 1])
    /\ pc' = "segments"
    /\ UNCHANGED <<syntax, op, self, arg, cwd, location, parts, origin, destination,
                   orig_list, dest_list, common_index, segments, result>>

\* zip is exhausted
RelZipEnd ==
    /\ pc = "zip"
    /\ ~ZipHas(orig_list, dest_list, common_index)
    /\ pc' = "segments"
    /\ UNCHANGED <<syntax, op, self, arg, cwd, location, parts, origin, destination,
                   orig_list, dest_list, common_index, segments, result>>

RelSegments ==
    /\ pc = "segments"
    /\ segments' = Segments(syntax, orig_list, dest_list, common_index)
    /\ pc' = "join"
    /\ UNCHANGED <<syntax, op, self, arg, cwd, location, parts, origin, destination,
                   orig_list, dest_list, common_index, result>>

RelReturn ==
    /\ pc = "join"
    /\ result' = RelResult(syntax, segments)
    /\ pc' = "done"
    /\ UNCHANGED <<syntax, op, self, arg, cwd, location, parts, origin, destination,
                   orig_list, dest_list, common_index, segments>>

NextRel ==
    \/ RelAbsolute
    \/ RelSplitAll
    \/ RelNoRelativePath
    \/ RelSameRoot
    \/ RelCommon
    \/ RelDiverge
    \/ RelZipEnd
    \/ RelSegments
    \/ RelReturn

SplitSpec == InitSplit /\ [][NextSplit]_vars

RelSpec == InitRel /\ [][NextRel]_vars

-----------------------------------------------------------------------------
(* Properties of splitpath and splitall (SplitSpec, FairSplitSpec)         *)

SplitPathDone == pc = "done" /\ op = "splitpath"
SplitAllDone == pc = "done" /\ op = "splitall"

HasNoSep(syn, s) == \A i \in 1..Len(s) : s[i] \notin seps(syn)

\* C1: for every path p, p.splitall() = [root, c1, ..., cn] with
\* root.joinpath(c1, ..., cn) equal to p character for character.
C1_SplitallRejoins ==
    SplitAllDone => joinpath(syntax, result[1], Tail(result)) = self

\* the characters of self between the parent and the basename splitpath returned
Gap == SubSeq(self, Len(result[1]) + 1, Len(self) - Len(result[2]))

\* C6: for every path p, p.splitpath() = (parent, basename) and, whenever
\* basename is non-empty, parent.joinpath(basename) is p exactly, repeated
\* separators before the basename included.
C6_SplitpathRejoins ==
    (SplitPathDone /\ result[2] # <<>>) =>
        joinpath(syntax, result[1], <<result[2]>>) = self

\* What splitpath does guarantee: p is parent, then a run of separators, then
\* a basename without separators; the join gives p back when that run is
\* empty or one primary separator and the basename has no drive specifier.
SplitpathRejoinsUpToSeparators ==
    SplitPathDone =>
        /\ Len(result[1]) + Len(result[2]) <= Len(self)
        /\ self = result[1] \o Gap \o result[2]
        /\ AllIn(Gap, seps(syntax))
        /\ HasNoSep(syntax, result[2])
        /\ (/\ result[2] # <<>>
            /\ Gap \in {<<>>, <<sep(syntax)>>}
            /\ splitdrive(syntax, result[2])[1] = <<>>)
           => joinpath(syntax, result[1], <<result[2]>>) = self

\* a root with at least one separator after the (possibly empty) drive
IsAbsoluteRoot(syn, x) ==
    LET rest == splitdrive(syn, x)[2] IN rest # <<>> /\ AllIn(rest, seps(syn))

\* a (possibly empty) drive followed by zero or more separators
IsDriveAndSeps(syn, x) == AllIn(splitdrive(syn, x)[2], seps(syn))

ComponentsPlain ==
    \A i \in 2..Len(result) : HasNoSep(syntax, result[i])

\* C7 as stated: element 0 of splitall is the absolute root, curdir or
\* pardir, and every other element contains no separator.
C7_RootMarker ==
    SplitAllDone =>
        /\ \/ result[1] \in {curdir(syntax), pardir(syntax)}
           \/ IsAbsoluteRoot(syntax, result[1])
        /\ ComponentsPlain

\* C7 amended: element 0 of splitall is curdir, pardir, or an optional drive
\* specifier followed by zero or more separators (the empty string for a
\* relative path, the absolute root when there is a separator); every other
\* element contains no separator.
C7_RootMarkerOrEmpty ==
    SplitAllDone =>
        /\ Len(result) >= 1
        /\ \/ result[1] \in {curdir(syntax), pardir(syntax)}
           \/ IsDriveAndSeps(syntax, result[1])
        /\ ComponentsPlain

C7_Witness ==
    /\ SplitAllDone
    /\ result[1] = <<>>
    /\ Len(result) >= 3

\* an iteration that goes round again leaves a strictly shorter location
LoopStepShrinks ==
    (pc = "while" /\ pc' = "while") => Len(location') < Len(location)

\* the loop is left at curdir or pardir, or at a location splitpath maps to
\* itself, and leaving it appends nothing
LoopExitAppendsNothing ==
    (pc = "while" /\ pc' = "return") =>
        /\ parts' = parts /\ location' = location
        /\ \/ location \in {curdir(syntax), pardir(syntax)}
           \/ splitpath(syntax, location)[1] = location

\* a natural number that every step of a call must decrease: the steps left
\* before the return, at most
Variant ==
    CASE pc = "call" -> Len(self) + 3
      [] pc = "while" -> Len(location) + 2
      [] pc = "return" -> 1
      [] OTHER -> 0

\* at the loop's test exactly one of three holds: the location is curdir or
\* pardir, or splitpath maps it to itself, or splitpath's parent is strictly
\* shorter
LoopTrichotomy ==
    pc = "while" =>
        LET stops == location \in {curdir(syntax), pardir(syntax)}
            parent == splitpath(syntax, location)[1]
        IN  \/ stops
            \/ parent = location
            \/ Len(parent) < Len(location)

\* C8: the splitall loop terminates on every input: each iteration strictly
\* shrinks the location, or stops at curdir/pardir, or breaks at a fixed
\* point of splitpath without appending; every step of a call decreases a
\* natural-number variant, so the loop cannot run forever.
C8_SplitallTerminates ==
    /\ [][LoopStepShrinks /\ LoopExitAppendsNothing /\ Variant' < Variant]_vars
    /\ [](LoopTrichotomy /\ Variant \in Nat)

\* a degenerate input: the loop was left by the fixed-point break at a
\* non-empty location, after at least one component
C8_Witness ==
    /\ SplitAllDone
    /\ location \notin {curdir(syntax), pardir(syntax), <<>>}
    /\ Len(result) >= 2

-----------------------------------------------------------------------------------------------------------------------------------------------------
(* Properties of relpathto (RelSpec)                                       *)

RelDone == pc = "done" /\ op = "relpathto"

\* origin.absolute() and destination.absolute()
AbsOrigin == abspath(syntax, self, cwd)
AbsDest == abspath(syntax, arg, cwd)

\* O and D of the claims, and the origin's components as spelled
OList == splitall(syntax, normcase(syntax, AbsOrigin))
DList == splitall(syntax, AbsDest)
ORaw == splitall(syntax, AbsOrigin)

SameRootOf(syn, O, D) == O[1] = normcase(syn, D[1])
SameRoot == SameRootOf(syntax, OList, DList)

Min(a, b) == IF a <= b THEN a ELSE b

\* the first 0-based index at which O[k] # normcase(D[k]); the length of the
\* shorter list when one is a prefix of the other
DivergenceIndex(syn, O, D) ==
    LET n == Min(Len(O), Len(D))
        diffs == {i \in 0..(n - 1) : O[i + 1] # normcase(syn, D[i + 1])}
    IN  IF diffs = {} THEN n ELSE SetMin(diffs)

\* len(O) - k pardirs followed by D[k:]
ExpectedSegments(syn, O, D, k) ==
    Repeat(pardir(syn), Len(O) - k) \o SubSeq(D, k + 1, Len(D))

\* C2: when the absolute forms share their normcased root, relpathto is the
\* join of len(O) - k pardirs followed by D[k:], k the first index where
\* O[k] # normcase(D[k]); Path('/a/b/c').relpathto('/a/d/e') is '../../d/e'.
C2_RelpathtoSegments ==
    RelDone =>
        LET O == OList
            D == DList
            segs == ExpectedSegments(syntax, O, D, DivergenceIndex(syntax, O, D))
        IN  /\ (SameRootOf(syntax, O, D) /\ segs # <<>>) =>
                   result = join(syntax, Head(segs), Tail(segs))
            /\ (/\ syntax = "posix"
                /\ self = <<"/", "a", "/", "b", "/", "c">>
                /\ arg = <<"/", "a", "/", "d", "/", "e">>)
               => result = <<".", ".", "/", ".", ".", "/", "d", "/", "e">>

C2_Witness ==
    /\ RelDone
    /\ syntax = "posix"
    /\ self = <<"/", "a", "/", "b", "/", "c">>
    /\ arg = <<"/", "a", "/", "d", "/", "e">>
    /\ DivergenceIndex(syntax, OList, DList) = 2
    /\ result = <<".", ".", "/", ".", ".", "/", "d", "/", "e">>

\* C3: when the normcased roots of the absolute origin and destination
\* differ, relpathto returns destination.absolute() itself.
C3_DifferentRootsReturnDestination ==
    RelDone =>
        LET ad == AbsDest
        IN  ~SameRootOf(syntax, OList, splitall(syntax, ad)) => result = ad

C3_Witness ==
    /\ RelDone
    /\ syntax = "nt"
    /\ self = <<"C", ":", "\\", "A", "\\", "B">>
    /\ arg = <<"D", ":", "\\", "X">>
    /\ ~SameRoot
    /\ result = <<"D", ":", "\\", "X">>

\* C4: for any absolute p, p.relpathto(p) is curdir; the segment list is
\* empty exactly when the absolute forms are the same path (under normcase),
\* and curdir is then returned.
C4_RelpathtoSelfIsCurdir ==
    RelDone =>
        LET ao == AbsOrigin
            ad == AbsDest
        IN  /\ (isabs(syntax, self) /\ arg = self) => result = curdir(syntax)
            /\ SameRootOf(syntax, splitall(syntax, normcase(syntax, ao)),
                          splitall(syntax, ad)) =>
                /\ (segments = <<>>) <=> (normcase(syntax, ao) = normcase(syntax, ad))
                /\ (segments = <<>>) => result = curdir(syntax)

C4_Witness ==
    /\ RelDone
    /\ syntax = "nt"
    /\ isabs(syntax, self) /\ arg = self
    /\ Len(orig_list) >= 3
    /\ segments = <<>>
    /\ result = curdir(syntax)

\* D is O with at least one more component (compared under normcase)
IsStrictPrefix(syn, O, D) ==
    /\ Len(O) < Len(D)
    /\ \A i \in 1..Len(O) : O[i] = normcase(syn, D[i])

\* O is D with at least one more component
IsStrictExtension(syn, O, D) ==
    /\ Len(D) < Len(O)
    /\ \A i \in 1..Len(D) : O[i] = normcase(syn, D[i])

\* C5: for absolute paths on the same root, a destination that is a strict
\* ancestor of the origin gives only pardirs, one per component the origin is
\* deeper; a strict descendant gives no pardir, the join of the destination's
\* components below the origin.
C5_AncestorAndDescendant ==
    (RelDone /\ isabs(syntax, self) /\ isabs(syntax, arg)) =>
        LET O == OList
            D == DList
            below == SubSeq(D, Len(O) + 1, Len(D))
        IN  SameRootOf(syntax, O, D) =>
            /\ IsStrictExtension(syntax, O, D) =>
                   result = JoinWith(Repeat(pardir(syntax), Len(O) - Len(D)),
                                     sep(syntax))
            /\ IsStrictPrefix(syntax, O, D) =>
                   /\ result = join(syntax, Head(below), Tail(below))
                   /\ result = JoinWith(below, sep(syntax))
                   /\ \A i \in 1..Len(below) : below[i] # pardir(syntax)
            /\ (syntax = "posix" /\ self = <<"/", "a", "/", "b", "/", "c">>
                  /\ arg = <<"/", "a">>)
               => result = <<".", ".", "/", ".", ".">>
            /\ (syntax = "posix" /\ self = <<"/", "a">>
                  /\ arg = <<"/", "a", "/", "b", "/", "c">>)
               => result = <<"b", "/", "c">>

C5_Witness ==
    /\ RelDone
    /\ syntax = "posix"
    /\ self = <<"/", "a">>
    /\ arg = <<"/", "a", "/", "b", "/", "c">>
    /\ IsStrictPrefix(syntax, OList, DList)
    /\ result = <<"b", "/", "c">>

\* the length of the longest prefix on which two component lists agree once
\* both are normcased
CommonUnderNormcase(syn, R, D) ==
    LET n == Min(Len(R), Len(D))
        diffs == {i \in 0..(n - 1) : normcase(syn, R[i + 1]) # normcase(syn, D[i + 1])}
    IN  IF diffs = {} THEN n ELSE SetMin(diffs)

EndsWith(s, t) == Len(s) >= Len(t) /\ Drop(s, Len(s) - Len(t)) = t

\* C9: normcase only decides which components are common: components equal
\* after normcase are common prefix, and the destination components emitted
\* keep the destination's own spelling.
C9_NormcaseOnlyCompares ==
    RelDone =>
        LET R == ORaw
            D == DList
            c == CommonUnderNormcase(syntax, R, D)
        IN  SameRootOf(syntax, OList, D) =>
            /\ Len(R) = Len(orig_list)
            /\ common_index = c
            /\ segments = Repeat(pardir(syntax), Len(R) - c) \o Drop(D, c)
            /\ segments # <<>> =>
                   EndsWith(result, JoinWith(Drop(D, c), sep(syntax)))

\* the common prefix differs in case, and an emitted component is upper case
C9_Witness ==
    /\ RelDone /\ SameRoot
    /\ syntax = "nt"
    /\ common_index = 3
    /\ ORaw[2] # DList[2]
    /\ Len(DList) > common_index
    /\ DList[common_index + 1] # normcase(syntax, DList[common_index + 1])
    /\ EndsWith(result, <<DList[common_index + 1][1]>>)

\* origin.absolute() joined with the result, normalized
RoundTrip == normpath(syntax, join(syntax, AbsOrigin, <<result>>))

\* the pardir segments relpathto put in front of the destination's components
EmittedPardirs(D) == Len(segments) - Len(Drop(D, common_index))

====
